---- MODULE Spec2Model ----
(***************************************************************************)
(* A model of the MacPaint <-> PNG converter: the PackBits codec           *)
(* (_pack_bits, MacPaintFile._unpack_bits), the 512-byte Header, the       *)
(* MacPaintFile constructors, PNGFile.convert and the Atkinson dither.     *)
(* Byte strings are sequences of integers 0..255.  Python's 0-based        *)
(* indices are kept: element i of a Python sequence s is s[i + 1] here.    *)
(* A Python call that may raise returns a record [ok, val]: ok = FALSE is  *)
(* the exception (IndexError, AssertionError, NameError, struct.error).    *)
(***************************************************************************)
EXTENDS Integers, Sequences, FiniteSets, TLC

VARIABLES
    line, packed, unpacked, pc,             \* the codec: _pack_bits, _unpack_bits
    hdr, host, raw, parsed, hpc,            \* Header.pack then Header.parse
    file, fhost, fheader, fimage, written, fpc, \* MacPaintFile.from_file, write_file
    bitmap, img, derived, ipc,              \* MacPaintFile.from_scanlines and a reader
    png, passed, cres, cpc,                 \* PNGFile.convert
    grey, errors, dithered, dx, dy          \* dither

packVars == <<line, packed, unpacked, pc>>
hdrVars  == <<hdr, host, raw, parsed, hpc>>
fileVars == <<file, fhost, fheader, fimage, written, fpc>>
imgVars  == <<bitmap, img, derived, ipc>>
cvtVars  == <<png, passed, cres, cpc>>
dthVars  == <<grey, errors, dithered, dx, dy>>
vars == <<packVars, hdrVars, fileVars, imgVars, cvtVars, dthVars>>
\* the variables outside each group
notPack == <<hdrVars, fileVars, imgVars, cvtVars, dthVars>>
notHdr  == <<packVars, fileVars, imgVars, cvtVars, dthVars>>
notFile == <<packVars, hdrVars, imgVars, cvtVars, dthVars>>
notImg  == <<packVars, hdrVars, fileVars, cvtVars, dthVars>>
notCvt  == <<packVars, hdrVars, fileVars, imgVars, dthVars>>
notDth  == <<packVars, hdrVars, fileVars, imgVars, cvtVars>>

----------------------------------------------------------------------------
(* Bounds of the model *)

\* longest line handed to _pack_bits in the codec specification
MaxLen == 6
\* bytes per scanline of the scaled canvas (the program's WIDTH // 8 is 72)
LineBytes == 4
\* rows of the scaled canvas (the program's HEIGHT is 720)
HEIGHT == 2
\* longest compressed data following the header of a legacy file
MaxData == 6
\* width and height of the image handed to dither
DitherW == 3
DitherH == 2

\* byte values of the lines packed in the codec specification
LineBytesSet == {0, 1, 255}
\* byte values of compressed data: literal headers 0 and 2, the no-op 128,
\* the repeat header 253 (a run of LineBytes = 257 - 253 bytes)
DataBytes == {0, 2, 128, 253}

----------------------------------------------------------------------------
(* Python helpers *)

Min(a, b) == IF a < b THEN a ELSE b

\* s[a:b] for 0 <= a, 0 <= b: clipped to the sequence, never an error
PySlice(s, a, b) ==
    LET hi == Min(b, Len(s))
    IN  IF hi <= a THEN <<>> ELSE [k \in 1..(hi - a) |-> s[a + k]]

\* count * [b]
Repeat(b, count) == [k \in 1..count |-> b]

Ok(v)  == [ok |-> TRUE, val |-> v]
Raise  == [ok |-> FALSE, val |-> <<>>]

RECURSIVE Pow(_, _)
Pow(b, e) == IF e = 0 THEN 1 ELSE b * Pow(b, e - 1)

RECURSIVE Join(_)
Join(ss) == IF ss = <<>> THEN <<>> ELSE Head(ss) \o Join(Tail(ss))

\* list(chunks(lst, n)): the last chunk is the remainder, possibly short
chunks(lst, n) ==
    [k \in 1..((Len(lst) + n - 1) \div n) |-> PySlice(lst, (k - 1) * n, k * n)]

----------------------------------------------------------------------------
(* _pack_bits *)

\* line[i : i + 3] == bytearray([line[i]] * 3)
IsRun3(ln, i) == PySlice(ln, i, i + 3) = Repeat(ln[i + 1], 3)

\* while j < len(line) and line[j] == line[i] and j - i < 127: j += 1
RECURSIVE RunEnd(_, _, _)
RunEnd(ln, i, j) ==
    IF j < Len(ln) /\ ln[j + 1] = ln[i + 1] /\ j - i < 127
    THEN RunEnd(ln, i, j + 1)
    ELSE j

\* while j - i < 127 and line[j : j + 3] != 3 * [line[j]]:
\*     j += 1; if j + 3 > len(line): j = len(line); break
RECURSIVE LiteralScan(_, _, _)
LiteralScan(ln, i, j) ==
    IF j - i < 127 /\ ~IsRun3(ln, j)
    THEN IF (j + 1) + 3 > Len(ln) THEN Len(ln) ELSE LiteralScan(ln, i, j + 1)
    ELSE j

\* the end j of the literal span that starts at i
LiteralEnd(ln, i) ==
    IF (i + 1) + 3 < Len(ln) THEN LiteralScan(ln, i, i + 1) ELSE Len(ln)

\* the outer loop: while i < len(line) - 3
RECURSIVE PackFrom(_, _, _)
PackFrom(ln, i, out) ==
    IF i < Len(ln) - 3
    THEN IF IsRun3(ln, i)
         THEN LET j == RunEnd(ln, i, i)
                  count == j - i
                  header == 256 - count + 1
              IN  PackFrom(ln, j, out \o <<header, ln[i + 1]>>)
         ELSE LET j == LiteralEnd(ln, i)
                  count == j - i
                  header == count - 1
              IN  PackFrom(ln, j, out \o <<header>> \o PySlice(ln, i, j))
    ELSE out

pack_bits(ln) == PackFrom(ln, 0, <<>>)

----------------------------------------------------------------------------
(* MacPaintFile._unpack_bits *)

RECURSIVE UnpackFrom(_, _, _)
UnpackFrom(data, i, result) ==
    IF i < Len(data)
    THEN LET header == data[i + 1]
         IN  IF header = 128
             THEN UnpackFrom(data, i + 1, result)
             ELSE IF header > 128
             THEN LET count == 256 - header + 1
                  IN  IF i + 1 >= Len(data)
                      THEN Raise    \* scanline_data[i + 1]: IndexError
                      ELSE UnpackFrom(data, i + 2,
                                      result \o Repeat(data[i + 2], count))
             ELSE LET count == header + 1
                  IN  UnpackFrom(data, i + 1 + count,
                                 result \o PySlice(data, i + 1, i + 1 + count))
    ELSE Ok(result)

unpack_bits(data) == UnpackFrom(data, 0, <<>>)

----------------------------------------------------------------------------
(* Header *)

\* Header.SIZE
SIZE == 512
\* the 38 "8s" fields of Header.parse
NumPatterns == 38
PatternLen == 8
\* the offset of the reserved bytes: raw[308:]
ReservedOffset == 308
\* gen_default: b'\0' * 204
ReservedLen == 204
\* gen_default: range(304)
DefaultPatternCount == 304

\* struct.pack(">I", v), for 0 <= v < 2^31
PackU32BE(v) ==
    <<v \div 16777216, (v \div 65536) % 256, (v \div 256) % 256, v % 256>>

\* struct.pack("<I", v): the byte order a little-endian writer would use
PackU32LE(v) ==
    <<v % 256, (v \div 256) % 256, (v \div 65536) % 256, v \div 16777216>>

\* struct.unpack("=I", b)[0]: the host's byte order
UnpackU32Native(b, order) ==
    IF order = "big"
    THEN b[1] * 16777216 + b[2] * 65536 + b[3] * 256 + b[4]
    ELSE b[4] * 16777216 + b[3] * 65536 + b[2] * 256 + b[1]

\* Header.parse(raw) on a host of the given byte order; struct.error when
\* raw[:4] is not 4 bytes or raw[4:308] is not 304 bytes
Header_parse(rawBytes, order) ==
    IF Len(rawBytes) < ReservedOffset
    THEN Raise
    ELSE Ok([version  |-> UnpackU32Native(PySlice(rawBytes, 0, 4), order),
             patterns |-> [k \in 1..NumPatterns |->
                              PySlice(rawBytes, 4 + PatternLen * (k - 1),
                                      4 + PatternLen * k)],
             reserved |-> PySlice(rawBytes, ReservedOffset, Len(rawBytes)),
             raw_str  |-> rawBytes])

\* Header.from_file(path): parse the whole content of the file
Header_from_file(content, order) == Header_parse(content, order)

Header_gen_default ==
    [version  |-> 0,
     patterns |-> [k \in 1..DefaultPatternCount |-> <<0>>],
     reserved |-> Repeat(0, ReservedLen),
     raw_str  |-> <<>>]

\* a pack that writes the version in little-endian order
Header_pack_le(h) == PackU32LE(h.version) \o Join(h.patterns) \o h.reserved

\* Header.pack
Header_pack(h) == PackU32BE(h.version) \o Join(h.patterns) \o h.reserved

----------------------------------------------------------------------------
(* MacPaintFile *)

\* MacPaintFile.WIDTH on the scaled canvas
WIDTH == 8 * LineBytes
WHITE == 255
BLACK == 0

\* self._bitmap: None, or the cached bitmap
NoBitmap == [cached |-> FALSE, val |-> <<>>]
Cached(b) == [cached |-> TRUE, val |-> b]

\* MacPaintFile.__init__(header, data, bitmap)
MacPaintFile_init(header, data, bm) ==
    LET decompressed == unpack_bits(data)
    IN  IF ~decompressed.ok
        THEN Raise
        ELSE LET all == chunks(decompressed.val, WIDTH \div 8)
                 scanlines == IF Len(all) > HEIGHT
                              THEN SubSeq(all, 1, HEIGHT)
                              ELSE all
             IN  IF Len(scanlines) = HEIGHT
                 THEN Ok([header |-> header, data |-> data,
                          scanlines |-> scanlines, bitmap |-> bm])
                 ELSE Raise     \* assert len(self.scanlines) == self.HEIGHT

\* MacPaintFile.from_file(path) on a file of the given content
MacPaintFile_from_file(content, order) ==
    LET header == Header_from_file(content, order)
    IN  IF ~header.ok
        THEN Raise
        ELSE MacPaintFile_init(header.val, PySlice(content, SIZE, Len(content)),
                               NoBitmap)

\* write_file: the header bytes and the blob written
write_file(m) ==
    LET head == Header_pack(m.header)
    IN  [head |-> head, blob |-> head \o m.data]

\* the byte built from raw_line[i .. i + 7]
RECURSIVE PixelByte(_, _, _)
PixelByte(raw_line, i, j) ==
    IF j = 8 THEN 0
    ELSE (IF raw_line[i + j + 1] = BLACK THEN Pow(2, 7 - j) ELSE 0)
         + PixelByte(raw_line, i, j + 1)

\* BitLine without the assert on the row's length
BitLine_noassert(raw_line) ==
    IF Len(raw_line) % 8 # 0
    THEN Raise
    ELSE Ok([b \in 1..(Len(raw_line) \div 8) |->
                PixelByte(raw_line, 8 * (b - 1), 0)])

\* the while loop of _gen_packed_data on one row, and its assert
BitLine(raw_line) ==
    IF Len(raw_line) % 8 # 0
    THEN Raise              \* raw_line[i + j]: IndexError
    ELSE LET bit_line == [b \in 1..(Len(raw_line) \div 8) |->
                             PixelByte(raw_line, 8 * (b - 1), 0)]
         IN  IF Len(bit_line) = WIDTH \div 8 THEN Ok(bit_line) ELSE Raise

RECURSIVE GenPackedFrom(_, _, _)
GenPackedFrom(bm, r, bits) ==
    IF r > Len(bm) THEN Ok(bits)
    ELSE LET bit_line == BitLine(bm[r])
         IN  IF ~bit_line.ok THEN Raise
             ELSE GenPackedFrom(bm, r + 1, bits \o pack_bits(bit_line.val))

\* MacPaintFile._gen_packed_data
gen_packed_data(bm) == GenPackedFrom(bm, 1, <<>>)

\* MacPaintFile.from_scanlines
from_scanlines(bm) ==
    LET packed_bits == gen_packed_data(bm)
    IN  IF ~packed_bits.ok
        THEN Raise
        ELSE MacPaintFile_init(Header_gen_default, packed_bits.val, Cached(bm))

\* MacPaintFile._generate_bitmap: scanline[j] is an IndexError on a short row
generate_bitmap(scanlines) ==
    IF \E r \in 1..Len(scanlines) : Len(scanlines[r]) < WIDTH \div 8
    THEN Raise
    ELSE Ok([r \in 1..Len(scanlines) |->
                [p \in 1..WIDTH |->
                    LET byte == scanlines[r][((p - 1) \div 8) + 1]
                        mask == Pow(2, 7 - ((p - 1) % 8))
                    IN  IF (byte \div mask) % 2 = 1 THEN BLACK ELSE WHITE]])

\* the bitmap property
bitmap_of(m) ==
    IF m.bitmap.cached THEN Ok(m.bitmap.val) ELSE generate_bitmap(m.scanlines)

----------------------------------------------------------------------------
(* PNGFile.convert *)

NotCalled == [called |-> FALSE, val |-> <<>>]
CalledWith(rows) == [called |-> TRUE, val |-> rows]

\* PNGFile.convert: the grid handed to from_scanlines, and what is returned.
\* "MacPaintFile.HEIGHT - height" names an undefined variable: NameError.
convert(p) ==
    LET rows1 == IF p.height > HEIGHT THEN PySlice(p.rows, 0, HEIGHT) ELSE p.rows
    IN  IF p.height < HEIGHT
        THEN [passed |-> NotCalled, result |-> Raise]
        ELSE LET rows2 == IF p.width > WIDTH
                          THEN [r \in 1..Len(rows1) |-> PySlice(rows1[r], 0, WIDTH)]
                          ELSE rows1
                 rows3 == IF p.width < WIDTH
                          THEN [r \in 1..Len(rows2) |->
                                   rows2[r] \o Repeat(WHITE, WIDTH - p.width)]
                          ELSE rows2
             IN  [passed |-> CalledWith(rows3), result |-> from_scanlines(rows3)]

----------------------------------------------------------------------------
(* dither *)

\* Error values are exact multiples of 1 / Denom, as the floats are on an
\* image this small; they are held as integers, scaled by Denom.
Denom == Pow(8, DitherW * DitherH)

x_y_offsets == << <<1, 0>>, <<2, 0>>, <<-1, 1>>, <<0, 1>>, <<1, 1>>, <<0, 2>> >>

\* try: errors[y + _y][x + _x] += err, except IndexError: continue.
\* A negative index counts from the end of the row.
AddError(errs, y, x, off, err) ==
    LET ty == y + off[2]
        tx == x + off[1]
    IN  IF ty >= Len(errs)
        THEN errs
        ELSE LET w == Len(errs[ty + 1])
                 col == IF tx < 0 THEN tx + w ELSE tx
             IN  IF tx >= w \/ tx < 0 - w
                 THEN errs
                 ELSE [errs EXCEPT ![ty + 1][col + 1] = @ + err]

\* the loop over x_y_offsets, from offset number k on
RECURSIVE Spread(_, _, _, _, _)
Spread(errs, y, x, err, k) ==
    IF k > Len(x_y_offsets) THEN errs
    ELSE Spread(AddError(errs, y, x, x_y_offsets[k], err), y, x, err, k + 1)

----------------------------------------------------------------------------
(* Inputs *)

Lines == UNION {[1..n -> LineBytesSet] : n \in 0..MaxLen}
DataSeqs == UNION {[1..n -> DataBytes] : n \in 0..MaxData}

\* versions below 2^31, the integers TLC holds
VersionBytes == {0, 1, 127}
Versions ==
    {b[1] * 16777216 + b[2] * 65536 + b[3] * 256 + b[4] : b \in [1..4 -> VersionBytes]}
Seeds == {0, 7}

\* a header of 38 pattern blocks of 8 bytes and 204 reserved bytes
MkHeader(v, pa, ra) ==
    [version  |-> v,
     patterns |-> [k \in 1..NumPatterns |->
                      [j \in 1..PatternLen |-> (pa + PatternLen * k + j) % 256]],
     reserved |-> [i \in 1..ReservedLen |-> (ra + i) % 256],
     raw_str  |-> <<>>]
Headers == {MkHeader(v, pa, ra) : v \in Versions, pa \in Seeds, ra \in Seeds}

\* a legacy file: 512 header bytes, then compressed data
LegacyFile(d) == <<0, 0, 0, 2>> \o [i \in 1..(SIZE - 4) |-> i % 256] \o d

\* groups of 8 pixels: all white (byte 0), and BWWWWWBB (byte 0x83)
Cells == {Repeat(WHITE, 8),
          <<BLACK, WHITE, WHITE, WHITE, WHITE, WHITE, BLACK, BLACK>>}
ValidRows == {Join(c) : c \in [1..LineBytes -> Cells]}
\* rows of a wrong length
BadLengthRows == {Repeat(WHITE, WIDTH - 1), Repeat(WHITE, WIDTH - 8),
                  Repeat(WHITE, WIDTH + 1), Repeat(WHITE, WIDTH + 8)}
\* 128 is a grey pixel
GreyRows == {<<128>> \o Repeat(WHITE, WIDTH - 1)}
Rows == ValidRows \cup BadLengthRows \cup GreyRows
\* bitmaps of 0 .. HEIGHT + 1 rows: k rows r1, then rows r2
Bitmaps ==
    {[i \in 1..n |-> IF i <= k THEN r1 ELSE r2] :
        n \in 0..(HEIGHT + 1), k \in 0..HEIGHT, r1 \in Rows, r2 \in Rows}

MkPng(w, h, fill) ==
    [width |-> w, height |-> h, rows |-> [r \in 1..h |-> Repeat(fill, w)]]
Pngs == {MkPng(w, h, f) : w \in 1..(WIDTH + 8), h \in 1..(HEIGHT + 2),
                          f \in {BLACK, WHITE}}

GreyValues == {0, 100, 255}
GreyImages == [1..DitherH -> [1..DitherW -> GreyValues]]

----------------------------------------------------------------------------
(* The codec: a line is packed and unpacked; file data is unpacked *)

IdlePack == line = <<>> /\ packed = <<>> /\ unpacked = Raise /\ pc = "idle"

InitCodec ==
    /\ unpacked = Raise
    /\ \/ pc = "line" /\ line \in Lines /\ packed = <<>>
       \/ pc = "data" /\ line = <<>> /\ packed \in DataSeqs

Pack ==
    /\ pc = "line"
    /\ packed' = pack_bits(line)
    /\ pc' = "packed"
    /\ UNCHANGED <<line, unpacked, notPack>>

Unpack ==
    /\ pc \in {"packed", "data"}
    /\ unpacked' = unpack_bits(packed)
    /\ pc' = IF pc = "packed" THEN "unpacked" ELSE "decoded"
    /\ UNCHANGED <<line, packed, notPack>>

----------------------------------------------------------------------------
(* The header: pack, then parse on a host of either byte order *)

IdleHdr == hdr = <<>> /\ host = "big" /\ raw = <<>> /\ parsed = Raise /\ hpc = "idle"

InitHeader ==
    /\ hdr \in Headers
    /\ host \in {"big", "little"}
    /\ raw = <<>>
    /\ parsed = Raise
    /\ hpc = "start"

HeaderPack ==
    /\ hpc = "start"
    /\ raw' = Header_pack(hdr)
    /\ hpc' = "packed"
    /\ UNCHANGED <<hdr, host, parsed, notHdr>>

HeaderParse ==
    /\ hpc = "packed"
    /\ parsed' = Header_parse(raw, host)
    /\ hpc' = "parsed"
    /\ UNCHANGED <<hdr, host, raw, notHdr>>

----------------------------------------------------------------------------
(* A legacy file: from_file, then write_file *)

IdleFile ==
    /\ file = <<>> /\ fhost = "big" /\ fheader = Raise /\ fimage = Raise
    /\ written = <<>> /\ fpc = "idle"

InitFile ==
    /\ file \in {LegacyFile(d) : d \in DataSeqs}
    /\ fhost \in {"big", "little"}
    /\ fheader = Raise
    /\ fimage = Raise
    /\ written = <<>>
    /\ fpc = "start"

FromFile ==
    /\ fpc = "start"
    /\ fheader' = Header_from_file(file, fhost)
    /\ fimage' = MacPaintFile_from_file(file, fhost)
    /\ fpc' = "loaded"
    /\ UNCHANGED <<file, fhost, written, notFile>>

WriteFile ==
    /\ fpc = "loaded"
    /\ fimage.ok
    /\ written' = write_file(fimage.val)
    /\ fpc' = "written"
    /\ UNCHANGED <<file, fhost, fheader, fimage, notFile>>

----------------------------------------------------------------------------
(* A bitmap: from_scanlines, then a reader of the compressed data *)

IdleImg == bitmap = <<>> /\ img = Raise /\ derived = Raise /\ ipc = "idle"

InitImage ==
    /\ bitmap \in Bitmaps
    /\ img = Raise
    /\ derived = Raise
    /\ ipc = "start"

FromScanlines ==
    /\ ipc = "start"
    /\ img' = from_scanlines(bitmap)
    /\ ipc' = "built"
    /\ UNCHANGED <<bitmap, derived, notImg>>

\* MacPaintFile(header, data).bitmap: no cached bitmap
ReadBack ==
    /\ ipc = "built"
    /\ img.ok
    /\ LET m == MacPaintFile_init(img.val.header, img.val.data, NoBitmap)
       IN  derived' = IF m.ok THEN bitmap_of(m.val) ELSE Raise
    /\ ipc' = "read"
    /\ UNCHANGED <<bitmap, img, notImg>>

----------------------------------------------------------------------------
(* A raster source: convert *)

IdleCvt == png = <<>> /\ passed = NotCalled /\ cres = Raise /\ cpc = "idle"

InitConvert ==
    /\ png \in Pngs
    /\ passed = NotCalled
    /\ cres = Raise
    /\ cpc = "start"

Convert ==
    /\ cpc = "start"
    /\ LET c == convert(png)
       IN  passed' = c.passed /\ cres' = c.result
    /\ cpc' = "done"
    /\ UNCHANGED <<png, notCvt>>

----------------------------------------------------------------------------
(* dither: one step per pixel, in row-major order *)

IdleDth == grey = <<>> /\ errors = <<>> /\ dithered = <<>> /\ dx = 0 /\ dy = 0

InitDither ==
    /\ grey \in GreyImages
    /\ errors = [r \in 1..Len(grey) |-> [c \in 1..Len(grey[1]) |-> 0]]
    /\ dithered = <<>>
    /\ dx = 0
    /\ dy = 0

DitherPixel ==
    /\ dy < Len(grey)
    /\ LET b == grey[dy + 1][dx + 1]
           pix == b * Denom + errors[dy + 1][dx + 1]
           white == pix > 128 * Denom
           col == IF white THEN 255 ELSE 0
           err == (pix - col * Denom) \div 8
           out == IF white THEN WHITE ELSE BLACK
       IN  /\ errors' = Spread(errors, dy, dx, err, 1)
           /\ dithered' = IF dx = 0
                          THEN Append(dithered, <<out>>)
                          ELSE [dithered EXCEPT ![dy + 1] = Append(@, out)]
    /\ IF dx + 1 < Len(grey[dy + 1])
       THEN dx' = dx + 1 /\ dy' = dy
       ELSE dx' = 0 /\ dy' = dy + 1
    /\ UNCHANGED <<grey, notDth>>

----------------------------------------------------------------------------
(* Specifications *)

InitCodecAll == InitCodec /\ IdleHdr /\ IdleFile /\ IdleImg /\ IdleCvt /\ IdleDth
NextCodec == Pack \/ Unpack
SpecCodec == InitCodecAll /\ [][NextCodec]_vars

InitHeaderAll == InitHeader /\ IdlePack /\ IdleFile /\ IdleImg /\ IdleCvt /\ IdleDth
NextHeader == HeaderPack \/ HeaderParse
SpecHeader == InitHeaderAll /\ [][NextHeader]_vars

InitFileAll == InitFile /\ IdlePack /\ IdleHdr /\ IdleImg /\ IdleCvt /\ IdleDth
NextFile == FromFile \/ WriteFile
SpecFile == InitFileAll /\ [][NextFile]_vars

InitImageAll == InitImage /\ IdlePack /\ IdleHdr /\ IdleFile /\ IdleCvt /\ IdleDth
NextImage == FromScanlines \/ ReadBack
SpecImage == InitImageAll /\ [][NextImage]_vars

InitConvertAll == InitConvert /\ IdlePack /\ IdleHdr /\ IdleFile /\ IdleImg /\ IdleDth
NextConvert == Convert
SpecConvert == InitConvertAll /\ [][NextConvert]_vars

InitDitherAll == InitDither /\ IdlePack /\ IdleHdr /\ IdleFile /\ IdleImg /\ IdleCvt
NextDither == DitherPixel
SpecDither == InitDitherAll /\ [][NextDither]_vars

----------------------------------------------------------------------------
(* Properties *)

\* C1: for every line x of length 0..127, _unpack_bits(_pack_bits(x))
\* succeeds and equals x byte for byte.
C1_RoundTrip == pc = "unpacked" => unpacked.ok /\ unpacked.val = line

\* three consecutive identical bytes somewhere in s
HasTriple(s) == \E k \in 1..(Len(s) - 2) : s[k] = s[k + 1] /\ s[k + 1] = s[k + 2]

\* the literal spans of a packed line: each header 0..127 with its bytes
RECURSIVE LiteralSpans(_, _)
LiteralSpans(data, i) ==
    IF i >= Len(data) THEN {}
    ELSE IF data[i + 1] > 127 THEN LiteralSpans(data, i + 2)
    ELSE {PySlice(data, i + 1, i + 2 + data[i + 1])}
         \cup LiteralSpans(data, i + 2 + data[i + 1])

\* C10: no literal span emitted by _pack_bits holds three consecutive
\* identical bytes: three or more equal bytes are emitted as a run, also
\* when they are the last three bytes of the line.
C10_NoTripleInLiteral ==
    pc \in {"packed", "unpacked"} =>
        \A span \in LiteralSpans(packed, 0) : ~HasTriple(span)

\* some header's payload extends past the end of the data: a repeat header
\* with no byte after it, or a literal header n with fewer than n + 1 bytes
RECURSIVE TruncatedPayload(_, _)
TruncatedPayload(data, i) ==
    IF i >= Len(data) THEN FALSE
    ELSE IF data[i + 1] = 128 THEN TruncatedPayload(data, i + 1)
    ELSE IF data[i + 1] > 128
         THEN i + 2 > Len(data) \/ TruncatedPayload(data, i + 2)
    ELSE i + 2 + data[i + 1] > Len(data)
         \/ TruncatedPayload(data, i + 2 + data[i + 1])

\* C8: _unpack_bits fails whenever a header's payload extends past the end
\* of the input; it never returns a result built from a truncated payload.
C8_TruncatedFails ==
    pc = "decoded" /\ TruncatedPayload(packed, 0) => ~unpacked.ok

\* exactly HEIGHT rows of WIDTH pixels, each WHITE or BLACK
ValidBitmap(b) ==
    /\ Len(b) = HEIGHT
    /\ \A r \in 1..Len(b) :
          /\ Len(b[r]) = WIDTH
          /\ \A p \in 1..Len(b[r]) : b[r][p] \in {WHITE, BLACK}

\* C2: for a bitmap of HEIGHT rows of WIDTH pixels, each WHITE or BLACK,
\* from_scanlines succeeds and the bitmap a reader derives from the
\* compressed data alone equals it pixel for pixel.
C2_BitmapRoundTrip ==
    ValidBitmap(bitmap) =>
        /\ ipc \in {"built", "read"} => img.ok
        /\ ipc = "read" => derived.ok /\ derived.val = bitmap

\* C3: for a source of any width and height, convert reaches its call of
\* from_scanlines, and the grid it passes has HEIGHT rows of WIDTH pixels.
C3_CanvasGrid ==
    cpc = "done" =>
        /\ passed.called
        /\ Len(passed.val) = HEIGHT
        /\ \A r \in 1..Len(passed.val) : Len(passed.val[r]) = WIDTH

\* C4: every MacPaintFile whose construction succeeds holds exactly HEIGHT
\* scanlines, every one of them WIDTH / 8 bytes long.
C4_FullScanlines ==
    fpc \in {"loaded", "written"} /\ fimage.ok =>
        /\ Len(fimage.val.scanlines) = HEIGHT
        /\ \A r \in 1..Len(fimage.val.scanlines) :
              Len(fimage.val.scanlines[r]) = WIDTH \div 8

\* C5: Header.pack returns exactly 512 bytes for the Header of a legacy
\* file, so write_file emits 512 header bytes followed by the data.
C5_HeaderSize ==
    fpc = "written" =>
        /\ Len(written.head) = SIZE
        /\ written.blob = PySlice(written.blob, 0, SIZE) \o fimage.val.data

\* v with its four bytes reversed
ByteSwap32(v) ==
    (v % 256) * 16777216 + ((v \div 256) % 256) * 65536
    + ((v \div 65536) % 256) * 256 + (v \div 16777216)

\* C6: for a header h of 38 pattern blocks of 8 bytes and 204 reserved
\* bytes, Header.parse(h.pack()) has the patterns and the reserved bytes of
\* h; its version is h.version on a big-endian host, and h.version with its
\* four bytes reversed on a little-endian host.
C6_HeaderRoundTrip ==
    hpc = "parsed" =>
        /\ parsed.ok
        /\ parsed.val.patterns = hdr.patterns
        /\ parsed.val.reserved = hdr.reserved
        /\ parsed.val.version =
              IF host = "big" THEN hdr.version ELSE ByteSwap32(hdr.version)

\* a header parsed back on a little-endian host with a changed version
C6_Witness ==
    /\ hpc = "parsed"
    /\ host = "little"
    /\ parsed.ok
    /\ parsed.val.version # hdr.version
    /\ parsed.val.patterns = hdr.patterns

\* C7 as stated: from_scanlines fails whenever the bitmap does not have
\* exactly HEIGHT rows, or some row does not have exactly WIDTH pixels, or
\* some pixel is neither WHITE nor BLACK.
C7_Original == ipc # "start" /\ ~ValidBitmap(bitmap) => ~img.ok

\* C7 as amended: from_scanlines fails whenever the bitmap has fewer than
\* HEIGHT rows or some row does not have exactly WIDTH pixels.
C7_FewRowsOrBadRowFails ==
    ipc # "start" /\ (Len(bitmap) < HEIGHT
                      \/ \E r \in 1..Len(bitmap) : Len(bitmap[r]) # WIDTH)
        => ~img.ok

\* a bitmap with rows enough and one row 8 pixels short has been rejected
C7_Witness ==
    /\ ipc = "built"
    /\ Len(bitmap) > HEIGHT
    /\ \E r \in 1..Len(bitmap) : Len(bitmap[r]) = WIDTH - 8
    /\ ~img.ok

\* the six positions of the claim, relative to the pixel processed
SixNeighbours == {<<1, 0>>, <<2, 0>>, <<-1, 1>>, <<0, 1>>, <<1, 1>>, <<0, 2>>}

\* C9: processing the pixel at column dx, row dy changes the error
\* accumulator only at those of the six positions that lie inside the
\* image; every other cell is left unchanged.
C9_ErrorFrame ==
    [][\A cy \in 1..Len(errors) : \A cx \in 1..Len(errors[cy]) :
          errors'[cy][cx] # errors[cy][cx] =>
              <<(cx - 1) - dx, (cy - 1) - dy>> \in SixNeighbours]_vars

====
